---- MODULE Spec2Model ----
(***************************************************************************)
(* A model of the toolbox command-line front-end (cmd/create.go, cmd/rm.go, *)
(* cmd/run.go, cmd/root.go, pkg/utils/utils.go, pkg/podman/podman.go).      *)
(*                                                                         *)
(* Every Go string is a sequence of chunks.  Where the code splits, joins   *)
(* or searches a string, each separator character ("/", ":", "=", ".",      *)
(* ",", "-", " ") is a chunk of its own; text the code only copies is kept  *)
(* as one chunk.  String concatenation is \o, the empty string is << >>.    *)
(* An argv is a sequence of such strings.  A Go error is its message; the   *)
(* nil error is Nil.                                                        *)
(***************************************************************************)
EXTENDS Integers, Sequences, FiniteSets, TLC

VARIABLES host, containers, images, created, last

vars == <<host, containers, images, created, last>>

-----------------------------------------------------------------------------
(* Strings *)

Nil == << >>

S(c) == <<c>>

\* A list of one-chunk strings, e.g. the fixed words of an argv.
Lit(ws) == [i \in DOMAIN ws |-> <<ws[i]>>]

\* "/a/b" from <<"a", "b">>
RECURSIVE Path(_)
Path(comps) ==
    IF comps = << >> THEN << >>
    ELSE <<"/", Head(comps)>> \o Path(Tail(comps))

\* strings.Split(s, sep) for a one-character separator
RECURSIVE Split(_, _)
Split(s, sep) ==
    IF \A i \in DOMAIN s : s[i] # sep THEN <<s>>
    ELSE LET i == CHOOSE k \in DOMAIN s :
                      s[k] = sep /\ \A j \in 1..(k - 1) : s[j] # sep
         IN  <<SubSeq(s, 1, i - 1)>> \o Split(SubSeq(s, i + 1, Len(s)), sep)

\* strings.HasPrefix(s, "/")
HasSlashPrefix(s) == s # << >> /\ s[1] = "/"

\* The characters of a chunk that the code searches inside (mount options).
RECURSIVE Flatten(_)
Flatten(ss) == IF ss = << >> THEN << >> ELSE Head(ss) \o Flatten(Tail(ss))

\* strings.Contains(s, sub) on sequences
ContainsSub(s, sub) ==
    \E i \in 1..(Len(s) - Len(sub) + 1) : SubSeq(s, i, i + Len(sub) - 1) = sub

\* fmt.Sprint of a positive int
Digit(d) ==
    CASE d = 0 -> "0" [] d = 1 -> "1" [] d = 2 -> "2" [] d = 3 -> "3"
      [] d = 4 -> "4" [] d = 5 -> "5" [] d = 6 -> "6" [] d = 7 -> "7"
      [] d = 8 -> "8" [] OTHER -> "9"

RECURSIVE Sprint(_)
Sprint(n) ==
    IF n < 10 THEN <<Digit(n)>> ELSE Sprint(n \div 10) \o <<Digit(n % 10)>>

\* args[i] = a and args[i+1] = b for some i
HasPair(args, a, b) ==
    \E i \in 1..(Len(args) - 1) : args[i] = a /\ args[i + 1] = b

Has(args, a) == \E i \in DOMAIN args : args[i] = a

Count(args, a) == Cardinality({i \in DOMAIN args : args[i] = a})

-----------------------------------------------------------------------------
(* The host this process runs on: file system, environment, services.      *)

ENOENT == <<"ENOENT">>

Unset == <<"<unset>">>

\* os.Getenv: the value, or "" when the variable is unset
Getenv(h, k) == IF h.env[k] = Unset THEN << >> ELSE h.env[k]

\* filepath.EvalSymlinks: the canonical path, or an error
EvalSymlinks(h, p) ==
    IF p \in DOMAIN h.fs /\ h.fs[p] # ENOENT
    THEN [path |-> h.fs[p], err |-> Nil]
    ELSE [path |-> << >>, err |-> <<"lstat: no such file or directory">>]

-----------------------------------------------------------------------------
(* pkg/utils/utils.go *)

preservedEnvironmentVariables ==
    <<"COLORTERM", "DBUS_SESSION_BUS_ADDRESS", "DBUS_SYSTEM_BUS_ADDRESS",
      "DESKTOP_SESSION", "DISPLAY", "LANG", "SHELL", "SSH_AUTH_SOCK", "TERM",
      "TOOLBOX_PATH", "VTE_VERSION", "WAYLAND_DISPLAY", "XDG_CURRENT_DESKTOP",
      "XDG_DATA_DIRS", "XDG_MENU_PREFIX", "XDG_RUNTIME_DIR", "XDG_SEAT",
      "XDG_SESSION_DESKTOP", "XDG_SESSION_ID", "XDG_SESSION_TYPE", "XDG_VTNR">>

PathExists(h, p) == p \in DOMAIN h.fs /\ h.fs[p] # ENOENT

IsInsideContainer(h) == PathExists(h, Path(<<"run", ".containerenv">>))

IsInsideToolboxContainer(h) == PathExists(h, Path(<<"run", ".toolboxenv">>))

RECURSIVE EnvOptionsFrom(_, _)
EnvOptionsFrom(h, variables) ==
    IF variables = << >> THEN << >>
    ELSE LET variable == Head(variables)
             rest == EnvOptionsFrom(h, Tail(variables))
         IN  IF h.env[variable] = Unset THEN rest
             ELSE <<(<<"--env", "=", variable, "=">> \o h.env[variable])>> \o rest

\* Only the variables with a value that is not empty.
GetEnvOptionsForNonEmptyVariables(h) ==
    EnvOptionsFrom([h EXCEPT !.env = [v \in DOMAIN @ |-> IF @[v] = << >> THEN Unset ELSE @[v]]],
                   preservedEnvironmentVariables)

GetEnvOptionsForPreservedVariables(h) ==
    EnvOptionsFrom(h, preservedEnvironmentVariables)

\* The argv handed to flatpak-spawn.
flatpakSpawnArgs(h, osArgs) ==
    GetEnvOptionsForPreservedVariables(h)
        \o <<S("--host"), Getenv(h, "TOOLBOX_PATH")>>
        \o Tail(osArgs)

\* spawn is what cmd.Run() of flatpak-spawn gave: kind "notfound" (exec.ErrNotFound),
\* "failed" (another error that is no *exec.ExitError), or "exit" with the exit
\* status of the helper, which is that of the forwarded host process.
ForwardToHost(h, osArgs, spawn) ==
    LET fwd == <<flatpakSpawnArgs(h, osArgs)>>
    IN  IF spawn.kind = "notfound"
        THEN [code |-> 1, err |-> <<"flatpak-spawn(1) not found">>, fwd |-> fwd]
        ELSE IF spawn.kind = "exit" /\ spawn.code # 0
        THEN [code |-> spawn.code, err |-> Nil, fwd |-> fwd]
        ELSE [code |-> 0, err |-> Nil, fwd |-> fwd]

CallFlatpakSessionHelper(h) ==
    CASE h.sessionHelper.kind = "noBus" ->
            [path |-> << >>, err |-> <<"failed to connect to the D-Bus session instance">>]
      [] h.sessionHelper.kind = "callFailed" ->
            [path |-> << >>,
             err |-> <<"failed to call org.freedesktop.Flatpak.SessionHelper.RequestSession">>]
      [] h.sessionHelper.kind = "badReply" ->
            [path |-> << >>,
             err |-> <<"unknown reply from org.freedesktop.Flatpak.SessionHelper.RequestSession">>]
      [] OTHER -> [path |-> h.sessionHelper.path, err |-> Nil]

GetGroupForSudo(h) ==
    IF "sudo" \in h.groups THEN [group |-> <<"sudo">>, err |-> Nil]
    ELSE IF "wheel" \in h.groups THEN [group |-> <<"wheel">>, err |-> Nil]
    ELSE [group |-> << >>, err |-> <<"group for sudo not found">>]

-----------------------------------------------------------------------------
(* pkg/podman/podman.go: the engine gateway.  The engine's state is the     *)
(* set of containers (name, labels) and the set of image references for     *)
(* which "image exists" succeeds.                                           *)

ExitStatus(n) == <<"exit status", " ">> \o Sprint(n)

ErrNonExistent == ExitStatus(1)

ErrRunningContainer == ExitStatus(2)

ErrInternal == ExitStatus(125)

ErrServiceUnavailable ==
    <<"invalid status code from registry 503 (Service Unavailable)">>

ErrConnectionRefused == <<"connection refused">>

ErrUnknownManifest == <<"manifest unknown">>

Names(cs) == {c.name : c \in cs}

\* "podman container exists <container>": (true, nil), or (false, exit status 1)
ContainerExists(cs, container) ==
    IF container \in Names(cs)
    THEN [exists |-> TRUE, err |-> Nil,
          call |-> Lit(<<"container", "exists">>) \o <<container>>]
    ELSE [exists |-> FALSE, err |-> ErrNonExistent,
          call |-> Lit(<<"container", "exists">>) \o <<container>>]

\* An engine that knows no image: every "image exists" fails.
ImageNeverExists(ims, image) ==
    [exists |-> FALSE, err |-> ErrNonExistent,
     call |-> Lit(<<"image", "exists">>) \o <<image>>]

\* "podman image exists <image>"
ImageExists(ims, image) ==
    IF image \in ims
    THEN [exists |-> TRUE, err |-> Nil,
          call |-> Lit(<<"image", "exists">>) \o <<image>>]
    ELSE [exists |-> FALSE, err |-> ErrNonExistent,
          call |-> Lit(<<"image", "exists">>) \o <<image>>]

\* "podman pull <imageName>"; outcome is what the registry and the engine did.
PullImage(ims, imageName, outcome) ==
    LET call == Lit(<<"pull">>) \o <<imageName>>
    IN  CASE outcome = "ok" -> [err |-> Nil, ims |-> ims \cup {imageName}, call |-> call]
          [] outcome = "503" -> [err |-> ErrServiceUnavailable, ims |-> ims, call |-> call]
          [] outcome = "refused" -> [err |-> ErrConnectionRefused, ims |-> ims, call |-> call]
          [] outcome = "manifest" -> [err |-> ErrUnknownManifest, ims |-> ims, call |-> call]
          [] OTHER -> [err |-> ErrInternal, ims |-> ims, call |-> call]

\* A JSON value as json.Unmarshal stores it in an interface{}: its dynamic Go
\* type and its content.  A JSON list always has type "[]interface{}".
JsonNull == [t |-> "nil", v |-> << >>]

JsonList(v) == [t |-> "[]interface{}", v |-> v]

\* "podman inspect --format json --type <typearg> <target>".  reply.kind is
\* "fail" (the command or the decoding failed), "empty" (a JSON list with no
\* element) or "doc" (a list whose first element is reply.doc).
PodmanInspect(typearg, target, reply) ==
    LET call == Lit(<<"inspect", "--format", "json", "--type", typearg>>) \o <<target>>
    IN  CASE reply.kind = "fail" ->
                [info |-> << >>, err |-> ErrInternal, panic |-> Nil, call |-> call]
          [] reply.kind = "empty" ->
                [info |-> << >>, err |-> Nil,
                 panic |-> <<"index out of range [0] with length 0">>, call |-> call]
          [] OTHER -> [info |-> reply.doc, err |-> Nil, panic |-> Nil, call |-> call]

\* version.CompareSimple(podmanVersion, requiredVersion) >= 0 on normalized
\* three-part versions
VersionAtLeast(v, req) ==
    \/ v[1] > req[1]
    \/ v[1] = req[1] /\ v[2] > req[2]
    \/ v[1] = req[1] /\ v[2] = req[2] /\ v[3] >= req[3]

CheckVersion(h, requiredVersion) ==
    [ok |-> VersionAtLeast(h.podmanVersion, requiredVersion),
     call |-> Lit(<<"version", "-f", "json">>)]

\* The engine's "create": the name after --name and the labels after --label.
RECURSIVE ArgsAfter(_, _)
ArgsAfter(args, opt) ==
    IF Len(args) < 2 THEN {}
    ELSE (IF Head(args) = opt THEN {args[2]} ELSE {}) \cup ArgsAfter(Tail(args), opt)

\* The ID the engine gives a container; the engine accepts it wherever it
\* accepts the name.
ContainerID(name) == <<"#">> \o name

\* "podman create <args>": rejected when the name is taken (or when the engine
\* fails for a reason of its own, accepted = FALSE).
EngineCreate(cs, createArgs, accepted) ==
    LET names == ArgsAfter(createArgs, S("--name"))
        name == CHOOSE n \in names : TRUE
    IN  IF accepted /\ names # {} /\ name \notin Names(cs)
        THEN [err |-> Nil,
              cs |-> cs \cup {[name |-> name, id |-> ContainerID(name),
                               labels |-> ArgsAfter(createArgs, S("--label"))]}]
        ELSE [err |-> ErrInternal, cs |-> cs]

-----------------------------------------------------------------------------
(* pkg/utils: the naming and image-reference helpers that cmd/create.go     *)
(* calls.  Their code is not part of the sources at hand; they follow the   *)
(* specification (sections 3, 4.2 and 4.4).                                 *)

ContainerNamePrefixDefault == <<"fedora", "-", "toolbox">>

ContainerNameDefault(h) == ContainerNamePrefixDefault \o <<"-">> \o h.versionID

\* Characters outside [A-Za-z0-9._-]; each is a chunk of its own.
NonNameChars == {"/", ":", "=", ",", " ", "!"}

\* nil when the name is non-empty and holds only characters of the pattern
IsContainerNameValid(name) ==
    IF name # << >> /\ \A i \in DOMAIN name : name[i] \notin NonNameChars
    THEN Nil
    ELSE <<"container name does not match the pattern">>

ResolveContainerAndImageNames(h, container, image, release) ==
    LET rel == IF release = << >> THEN h.versionID ELSE release
        name == IF container # << >> THEN container
                ELSE IF rel = h.versionID THEN ContainerNameDefault(h)
                ELSE ContainerNamePrefixDefault \o <<"-">> \o rel
        img == IF image # << >> THEN image
               ELSE <<"fedora", "-", "toolbox", ":">> \o rel
    IN  [container |-> name, image |-> img, release |-> rel, err |-> Nil]

HexDigits ==
    {"0", "1", "2", "3", "4", "5", "6", "7", "8", "9", "a", "b", "c", "d", "e", "f"}

\* nil when the reference looks like a content id: 6 to 64 hexadecimal digits
ImageReferenceCanBeID(image) ==
    IF Len(image) >= 6 /\ Len(image) <= 64 /\ \A i \in DOMAIN image : image[i] \in HexDigits
    THEN Nil
    ELSE <<"not an image id">>

\* The part before the first "/", when it names a registry: it holds a "." or
\* a ":" or is "localhost".  "" otherwise.
ImageReferenceGetDomain(image) ==
    IF \A i \in DOMAIN image : image[i] # "/" THEN << >>
    ELSE LET i == CHOOSE k \in DOMAIN image :
                      image[k] = "/" /\ \A j \in 1..(k - 1) : image[j] # "/"
             prefix == SubSeq(image, 1, i - 1)
         IN  IF prefix = <<"localhost">>
                \/ \E j \in DOMAIN prefix : prefix[j] \in {".", ":"}
             THEN prefix
             ELSE << >>

ImageReferenceHasDomain(image) == ImageReferenceGetDomain(image) # << >>

-----------------------------------------------------------------------------
(* cmd/create.go *)

createToolboxShMounts ==
    <<[containerPath |-> Path(<<"etc", "profile.d", "toolbox.sh">>),
       source |-> Path(<<"etc", "profile.d", "toolbox.sh">>)],
      [containerPath |-> Path(<<"etc", "profile.d", "toolbox.sh">>),
       source |-> Path(<<"usr", "share", "profile.d", "toolbox.sh">>)]>>

getEnterCommand(h, container, release) ==
    IF container = ContainerNameDefault(h)
    THEN h.executableBase \o <<" ", "enter">>
    ELSE IF container = ContainerNamePrefixDefault
    THEN h.executableBase \o <<" ", "enter", " ", "--release", " ">> \o release
    ELSE h.executableBase \o <<" ", "enter", " ", "--container", " ">> \o container

getDBusSystemSocket(h) ==
    LET env == Getenv(h, "DBUS_SYSTEM_BUS_ADDRESS")
        address == IF env = << >>
                   THEN <<"unix", ":", "path", "=">>
                            \o Path(<<"var", "run", "dbus", "system_bus_socket">>)
                   ELSE env
        addressSplit == Split(address, "=")
    IN  IF Len(addressSplit) # 2
        THEN [path |-> << >>,
              err |-> <<"failed to get the path to the D-Bus system socket">>]
        ELSE LET ev == EvalSymlinks(h, addressSplit[2])
             IN  IF ev.err # Nil
                 THEN [path |-> << >>,
                       err |-> <<"failed to resolve the path to the D-Bus system socket">>]
                 ELSE [path |-> ev.path, err |-> Nil]

\* The JSON decoder never yields the Go type []string, so the type assertion
\* info["RepoTags"].([]string) of line 440 panics on every value but nil.
getFullyQualifiedImageName(image, reply) ==
    IF ImageReferenceHasDomain(image)
    THEN [imageFull |-> image, err |-> Nil, panic |-> Nil, calls |-> << >>]
    ELSE LET ins == PodmanInspect("image", image, reply)
         IN  IF ins.panic # Nil
             THEN [imageFull |-> << >>, err |-> Nil, panic |-> ins.panic,
                   calls |-> <<ins.call>>]
             ELSE IF ins.err # Nil
             THEN [imageFull |-> << >>,
                   err |-> <<"failed to inspect image", " ">> \o image,
                   panic |-> Nil, calls |-> <<ins.call>>]
             ELSE IF "RepoTags" \notin DOMAIN ins.info \/ ins.info.RepoTags = JsonNull
             THEN [imageFull |-> << >>,
                   err |-> <<"missing RepoTag for image", " ">> \o image,
                   panic |-> Nil, calls |-> <<ins.call>>]
             ELSE IF ins.info.RepoTags.t # "[]string"
             THEN [imageFull |-> << >>, err |-> Nil,
                   panic |-> <<"interface conversion: interface {} is ",
                               ins.info.RepoTags.t, ", not []string">>,
                   calls |-> <<ins.call>>]
             ELSE IF Len(ins.info.RepoTags.v) = 0
             THEN [imageFull |-> << >>,
                   err |-> <<"empty RepoTag for image", " ">> \o image,
                   panic |-> Nil, calls |-> <<ins.call>>]
             ELSE [imageFull |-> ins.info.RepoTags.v[1], err |-> Nil, panic |-> Nil,
                   calls |-> <<ins.call>>]

\* A discovery that reports a failure and names the usual socket all the same.
getKCMSocketAssumed(h) ==
    [path |-> Path(<<"run", ".heim_org.h5l.kcm-socket">>),
     err |-> <<"failed to connect to the D-Bus system instance">>]

\* The first "Stream" socket of sssd-kcm.socket with an absolute, resolvable path.
getKCMSocket(h) ==
    CASE h.kcm.kind = "noBus" ->
            [path |-> << >>, err |-> <<"failed to connect to the D-Bus system instance">>]
      [] h.kcm.kind = "noProperties" ->
            [path |-> << >>,
             err |-> <<"failed to get the properties of sssd-kcm.socket">>]
      [] h.kcm.kind = "noListen" ->
            [path |-> << >>,
             err |-> <<"failed to find the Listen property of sssd-kcm.socket">>]
      [] OTHER ->
            LET sockets == h.kcm.sockets
                good == {i \in DOMAIN sockets :
                            /\ sockets[i][1] = "Stream"
                            /\ HasSlashPrefix(sockets[i][2])
                            /\ EvalSymlinks(h, sockets[i][2]).err = Nil}
            IN  IF good = {}
                THEN [path |-> << >>,
                      err |-> <<"failed to find a SOCK_STREAM socket for sssd-kcm.socket">>]
                ELSE LET i == CHOOSE k \in good : \A j \in good : k <= j
                     IN  [path |-> EvalSymlinks(h, sockets[i][2]).path, err |-> Nil]

\* utils.GetMountPoint and utils.GetMountOptions answer from h.usrMount.
isUsrReadWrite(h) ==
    IF h.usrMount.pointErr
    THEN [rw |-> FALSE, err |-> <<"failed to get the mount-point of /usr">>]
    ELSE IF h.usrMount.optionsErr
    THEN [rw |-> FALSE,
          err |-> <<"failed to get the mount options of", " ">> \o h.usrMount.point]
    ELSE IF ~ContainsSub(h.usrMount.options, <<"r", "o">>)
    THEN [rw |-> TRUE, err |-> Nil]
    ELSE [rw |-> FALSE, err |-> Nil]

\* The result of pullImage: the boolean and the error it returns, the engine
\* calls it made, whether it asked for confirmation, and the images afterwards.
PullRes(ok, err, calls, asked, ims) ==
    [called |-> TRUE, ok |-> ok, err |-> err, panic |-> Nil, calls |-> calls,
     asked |-> asked, ims |-> ims]

\* A pullImage that never qualifies the reference.
imageFullAsGiven(image, release) == image

\* Lines 536-542: the reference pullImage looks for last and pulls.
imageFullOf(image, release) ==
    IF ImageReferenceHasDomain(image) THEN image
    ELSE <<"registry", ".", "fedoraproject", ".", "org", "/", "f">>
             \o release \o <<"/">> \o image

\* A pullImage that asks before every download.
promptAlways(assumeYes, domain) == TRUE

\* Lines 556-562: no prompt with --assumeyes or for the domain "localhost".
promptForDownload(assumeYes, domain) == ~(assumeYes \/ domain = <<"localhost">>)

\* answer: what the user replies if asked; outcome: how the engine's pull ends.
pullImage(ims, image, release, assumeYes, answer, outcome) ==
    LET canBeID == ImageReferenceCanBeID(image) = Nil
        q1 == ImageExists(ims, image)
        c1 == IF canBeID THEN <<q1.call>> ELSE << >>
        hasDomain == ImageReferenceHasDomain(image)
        imageLocal == <<"localhost", "/">> \o image
        q2 == ImageExists(ims, imageLocal)
        c2 == IF hasDomain THEN c1 ELSE c1 \o <<q2.call>>
        imageFull == imageFullOf(image, release)
        q3 == ImageExists(ims, imageFull)
        c3 == c2 \o <<q3.call>>
        domain == ImageReferenceGetDomain(imageFull)
        noPrompt == ~promptForDownload(assumeYes, domain)
        shouldPullImage == IF noPrompt THEN TRUE ELSE answer
        p == PullImage(ims, imageFull, outcome)
    IN  IF canBeID /\ q1.err = Nil THEN PullRes(TRUE, Nil, c1, FALSE, ims)
        ELSE IF ~hasDomain /\ q2.err = Nil THEN PullRes(TRUE, Nil, c2, FALSE, ims)
        ELSE IF q3.err = Nil THEN PullRes(TRUE, Nil, c3, FALSE, ims)
        ELSE IF domain = << >>
        THEN [PullRes(FALSE, Nil, c3, FALSE, ims) EXCEPT
                 !.panic = <<"failed to get domain from", " ">> \o imageFull]
        ELSE IF ~shouldPullImage
        THEN PullRes(FALSE, <<"cancelled by user">>, c3, ~noPrompt, ims)
        ELSE IF p.err # Nil
        THEN PullRes(FALSE, p.err, c3 \o <<p.call>>, ~noPrompt, ims)
        ELSE PullRes(TRUE, Nil, c3 \o <<p.call>>, ~noPrompt, p.ims)

NoPull ==
    [called |-> FALSE, ok |-> FALSE, err |-> Nil, panic |-> Nil, calls |-> << >>,
     asked |-> FALSE, ims |-> {}]

\* What a handler did: the error it returned (or the panic that ended it), the
\* engine invocations it issued, the lines it printed, what pullImage did, the
\* flatpak-spawn invocations, the arguments createContainer was called with
\* (target), the exit status of the engine's "rm" that failed and the
\* container it was for (subject), and the engine's state afterwards.
Res(err, panic, calls, out, pull, cs, ims) ==
    [err |-> err, panic |-> panic, calls |-> calls, out |-> out, pull |-> pull,
     fwd |-> << >>, spawned |-> "none", code |-> 0, target |-> << >>,
     status |-> 0, subject |-> << >>, cs |-> cs, ims |-> ims]

Vol(arg) == <<S("--volume"), arg>>

\* Lines 299-314
EntryPoint(h, slashHomeLink, mediaLink, mntLink) ==
    Lit(<<"toolbox", "--log-level", "debug", "init-container", "--home">>)
        \o <<h.user.HomeDir>>
        \o slashHomeLink \o mediaLink \o mntLink
        \o Lit(<<"--monitor-host", "--shell">>) \o <<h.shell>>
        \o Lit(<<"--uid">>) \o <<h.user.Uid>>
        \o Lit(<<"--user">>) \o <<h.user.Username>>

\* An entry point that is always told /home is a symbolic link.
slashHomeLinkAlways(h) == <<S("--home-link")>>

\* Lines 289-297: --home-link when /home is a symbolic link to /var/home.
slashHomeLink(h) ==
    LET slashHomeEvaled == EvalSymlinks(h, Path(<<"home">>)).path
    IN  IF slashHomeEvaled = Path(<<"var", "home">>)
        THEN <<S("--home-link")>> ELSE << >>

\* Lines 173-175, 187-192, 199, 206, 214, 225-361: the argv of "podman create"
\* once every required resource is resolved.
CreateArgs(h, container, imageFull, sudoGroup, ulimitHost, dbusSystemSocket, flatpakHelperMonitorPath, homeDirEvaled, usrMountFlags) ==
    LET toolboxPath == Getenv(h, "TOOLBOX_PATH")
        toolboxPathEnvArg == <<"TOOLBOX_PATH", "=">> \o toolboxPath
        toolboxPathMountArg ==
            toolboxPath \o <<":">> \o Path(<<"usr", "bin", "toolbox">>) \o <<":", "ro">>
        dbusSystemSocketMountArg == dbusSystemSocket \o <<":">> \o dbusSystemSocket
        flatpakHelperMonitorMountArg ==
            flatpakHelperMonitorPath \o <<":">> \o Path(<<"run", "host", "monitor">>)
        homeDirMountArg == homeDirEvaled \o <<":">> \o homeDirEvaled \o <<":", "rslave">>
        usrMountArg ==
            Path(<<"usr">>) \o <<":">> \o Path(<<"run", "host", "usr">>) \o <<":">>
                \o usrMountFlags \o <<",", "rslave">>
        xdgRuntimeDir == Getenv(h, "XDG_RUNTIME_DIR")
        xdgRuntimeDirMountArg == xdgRuntimeDir \o <<":">> \o xdgRuntimeDir
        kcm == getKCMSocket(h)
        kcmSocketMount ==
            IF kcm.path # << >> THEN Vol(kcm.path \o <<":">> \o kcm.path) ELSE << >>
        found == {i \in DOMAIN createToolboxShMounts :
                     PathExists(h, createToolboxShMounts[i].source)}
        toolboxShMount ==
            IF found = {} THEN << >>
            ELSE LET m == createToolboxShMounts[CHOOSE k \in found : \A j \in found : k <= j]
                 IN  Vol(m.source \o <<":">> \o m.containerPath \o <<":", "ro">>)
        mediaExists == PathExists(h, Path(<<"media">>))
        mediaPath == EvalSymlinks(h, Path(<<"media">>)).path
        mediaIsLink == mediaExists /\ mediaPath = <<"run", "/", "media">>
        mediaLink == IF mediaIsLink THEN <<S("--media-link")>> ELSE << >>
        mediaMount ==
            IF mediaExists /\ ~mediaIsLink
            THEN Vol(Path(<<"media">>) \o <<":">> \o Path(<<"media">>) \o <<":", "rslave">>)
            ELSE << >>
        mntPath == EvalSymlinks(h, Path(<<"mnt">>)).path
        mntIsLink == mntPath = <<"var", "/", "mnt">>
        mntLink == IF mntIsLink THEN <<S("--mnt-link")>> ELSE << >>
        mntMount ==
            IF mntIsLink THEN << >>
            ELSE Vol(Path(<<"mnt">>) \o <<":">> \o Path(<<"mnt">>) \o <<":", "rslave">>)
        runMediaMount ==
            IF PathExists(h, Path(<<"run", "media">>))
            THEN Vol(Path(<<"run", "media">>) \o <<":">> \o Path(<<"run", "media">>)
                         \o <<":", "rslave">>)
            ELSE << >>
    IN  Lit(<<"create", "--dns", "none", "--env">>) \o <<toolboxPathEnvArg>>
            \o Lit(<<"--group-add">>) \o <<sudoGroup>>
            \o Lit(<<"--hostname", "toolbox", "--ipc", "host", "--label">>)
            \o <<(<<"com.github.containers.toolbox", "=", "true">>)>>
            \o Lit(<<"--label">>)
            \o <<(<<"com.github.debarshiray.toolbox", "=", "true">>)>>
            \o Lit(<<"--name">>) \o <<container>>
            \o Lit(<<"--network", "host", "--no-hosts", "--pid", "host",
                     "--privileged", "--security-opt", "label=disable">>)
            \o ulimitHost
            \o Lit(<<"--userns=keep-id", "--user", "root:root">>)
            \o Vol(Path(<<"etc">>) \o <<":">> \o Path(<<"run", "host", "etc">>))
            \o Vol(Path(<<"dev">>) \o <<":">> \o Path(<<"dev">>) \o <<":", "rslave">>)
            \o Vol(Path(<<"run">>) \o <<":">> \o Path(<<"run", "host", "run">>)
                       \o <<":", "rslave">>)
            \o Vol(Path(<<"tmp">>) \o <<":">> \o Path(<<"run", "host", "tmp">>)
                       \o <<":", "rslave">>)
            \o Vol(Path(<<"var">>) \o <<":">> \o Path(<<"run", "host", "var">>)
                       \o <<":", "rslave">>)
            \o Vol(dbusSystemSocketMountArg)
            \o Vol(flatpakHelperMonitorMountArg)
            \o Vol(homeDirMountArg)
            \o Vol(toolboxPathMountArg)
            \o Vol(usrMountArg)
            \o Vol(xdgRuntimeDirMountArg)
            \o kcmSocketMount \o mediaMount \o mntMount \o runMediaMount
            \o toolboxShMount
            \o <<imageFull>>
            \o EntryPoint(h, slashHomeLink(h), mediaLink, mntLink)

ErrAlreadyExists(container, enterCommand) ==
    <<"container", " ">> \o container \o <<" ", "already exists", "\n", "Enter with:", " ">>
        \o enterCommand \o <<"\n", "Run 'toolbox --help' for usage.">>

\* Lines 363-379: the engine's create, and what is printed.
createContainerInvoke(cs, container, enterCommand, k, pl, createArgs, cr) ==
    IF cr.err # Nil
    THEN Res(<<"failed to create container", " ">> \o container, Nil,
             k \o <<createArgs>>, << >>, pl, cr.cs, pl.ims)
    ELSE Res(Nil, Nil, k \o <<createArgs>>,
             <<(<<"Created container:", " ">> \o container),
               (<<"Enter with:", " ">> \o enterCommand)>>,
             pl, cr.cs, pl.ims)

\* The containers the engine holds when the create reaches it.
Meanwhile(cs, container, removedMeanwhile) ==
    IF removedMeanwhile THEN {c \in cs : c.name # container} ELSE cs

\* Lines 168-361: the fully qualified image name and the host's resources.
createContainerResources(h, cs, in, container, enterCommand, k, pl, fq) ==
    LET sudo == GetGroupForSudo(h)
        ver == CheckVersion(h, <<1, 5, 0>>)
        ulimitHost == IF ver.ok THEN Lit(<<"--ulimit", "host">>) ELSE << >>
        dbus == getDBusSystemSocket(h)
        helper == CallFlatpakSessionHelper(h)
        home == EvalSymlinks(h, h.user.HomeDir)
        usr == isUsrReadWrite(h)
        usrMountFlags == IF usr.rw THEN <<"rw">> ELSE <<"ro">>
        k3 == k \o fq.calls
        k4 == k3 \o <<ver.call>>
    IN  IF fq.panic # Nil THEN Res(Nil, fq.panic, k3, << >>, pl, cs, pl.ims)
        ELSE IF fq.err # Nil THEN Res(fq.err, Nil, k3, << >>, pl, cs, pl.ims)
        ELSE IF sudo.err # Nil THEN Res(sudo.err, Nil, k3, << >>, pl, cs, pl.ims)
        ELSE IF dbus.err # Nil THEN Res(dbus.err, Nil, k4, << >>, pl, cs, pl.ims)
        ELSE IF helper.err # Nil THEN Res(helper.err, Nil, k4, << >>, pl, cs, pl.ims)
        ELSE IF home.err # Nil
        THEN Res(<<"failed to canonicalize", " ">> \o h.user.HomeDir, Nil, k4, << >>,
                 pl, cs, pl.ims)
        ELSE IF usr.err # Nil THEN Res(usr.err, Nil, k4, << >>, pl, cs, pl.ims)
        ELSE createContainerInvoke(
                 cs, container, enterCommand, k4, pl,
                 CreateArgs(h, container, fq.imageFull, sudo.group, ulimitHost,
                            dbus.path, helper.path, home.path, usrMountFlags),
                 EngineCreate(Meanwhile(cs, container, in.removedMeanwhile),
                              CreateArgs(h, container, fq.imageFull, sudo.group,
                                         ulimitHost, dbus.path, helper.path, home.path,
                                         usrMountFlags),
                              in.accepted))

\* Lines 164-166: the image is acquired, or createContainer returns.
createContainerImage(h, cs, in, container, image, enterCommand, k, pl) ==
    IF pl.panic # Nil THEN Res(Nil, pl.panic, k \o pl.calls, << >>, pl, cs, pl.ims)
    ELSE IF pl.err # Nil THEN Res(Nil, Nil, k \o pl.calls, << >>, pl, cs, pl.ims)
    ELSE createContainerResources(h, cs, in, container, enterCommand, k \o pl.calls, pl,
                                  getFullyQualifiedImageName(image, in.inspect))

\* Lines 150-162: the existence query and the "already exists" error.
createContainerExists(h, cs, ims, in, container, image, release, enterCommand, q) ==
    IF q.err # Nil
    THEN Res(ErrAlreadyExists(container, enterCommand), Nil, <<q.call>>, << >>,
             NoPull, cs, ims)
    ELSE createContainerImage(h, cs, in, container, image, enterCommand, <<q.call>>,
                              pullImage(ims, image, release, in.assumeYes, in.answer,
                                        in.pull))

SetTarget(r, target) == [r EXCEPT !.target = target]

\* in: assumeYes (the flag), answer (to the download prompt), pull (the
\* outcome of the engine's pull), inspect (the reply to "inspect"), accepted
\* (the engine's create does not fail for a reason of its own), removedMeanwhile
\* (another client of the engine removes the container between the existence
\* query and the create: the engine is shared and nothing locks it).
createContainer(h, cs, ims, in, container, image, release) ==
    IF container = << >>
    THEN Res(Nil, <<"container not specified">>, << >>, << >>, NoPull, cs, ims)
    ELSE IF image = << >>
    THEN Res(Nil, <<"image not specified">>, << >>, << >>, NoPull, cs, ims)
    ELSE IF release = << >>
    THEN Res(Nil, <<"release not specified">>, << >>, << >>, NoPull, cs, ims)
    ELSE SetTarget(createContainerExists(h, cs, ims, in, container, image, release,
                                         getEnterCommand(h, container, release),
                                         ContainerExists(cs, container)),
                   <<container, image, release>>)

\* os.Args for a "create" command line: cobra parses it back into in.args
\* (the positional arguments) and the flags in.container, in.image, in.release
\* and in.assumeYes.
createOsArgs(in) ==
    Lit(<<"toolbox", "create">>)
        \o (IF in.assumeYes THEN Lit(<<"--assumeyes">>) ELSE << >>)
        \o (IF in.container # << >> THEN <<S("--container"), in.container>> ELSE << >>)
        \o (IF in.image # << >> THEN <<S("--image"), in.image>> ELSE << >>)
        \o (IF in.release # -1 THEN <<S("--release"), Sprint(in.release)>> ELSE << >>)
        \o in.args

ErrInvalidName(containerArg) ==
    <<"invalid argument for '", containerArg, "'", "\n",
      "Container names must match the naming pattern", "\n",
      "Run 'toolbox --help' for usage.">>

\* Lines 82-93 of create and 58-69 of rm: inside a container.
forward(h, cs, ims, osArgs, spawn) ==
    IF ~IsInsideToolboxContainer(h)
    THEN Res(<<"this is not a toolbox container">>, Nil, << >>, << >>, NoPull, cs, ims)
    ELSE LET f == ForwardToHost(h, osArgs, spawn)
         IN  [Res(f.err, Nil, << >>, << >>, NoPull, cs, ims) EXCEPT
                 !.fwd = f.fwd, !.spawned = spawn.kind, !.code = f.code]

create(h, cs, ims, in) ==
    IF IsInsideContainer(h) THEN forward(h, cs, ims, createOsArgs(in), in.spawn)
    ELSE
    LET container == IF Len(in.args) # 0 THEN in.args[1]
                     ELSE IF in.container # << >> THEN in.container
                     ELSE << >>
        containerArg == IF Len(in.args) # 0 THEN "CONTAINER" ELSE "--container"
        release == IF in.release > 0 THEN Sprint(in.release) ELSE << >>
        r == ResolveContainerAndImageNames(h, container, in.image, release)
    IN  IF container # << >> /\ IsContainerNameValid(container) # Nil
        THEN Res(ErrInvalidName(containerArg), Nil, << >>, << >>, NoPull, cs, ims)
        ELSE IF r.err # Nil THEN Res(r.err, Nil, << >>, << >>, NoPull, cs, ims)
        ELSE createContainer(h, cs, ims, in, r.container, r.image, r.release)

-----------------------------------------------------------------------------
(* cmd/rm.go *)

\* The engine's side of "podman rm": ev is what happens around this one call.
\* "gone": another client removed the container first; "running": it is
\* running or paused; "fails": the engine fails for a reason of its own.
RmStatus(cs, container, force, ev) ==
    IF ev = "gone" \/ \A c \in cs : c.name # container /\ c.id # container THEN 1
    ELSE IF ev = "fails" THEN 125
    ELSE IF ev = "running" /\ ~force THEN 2
    ELSE 0

removeContainer(cs, container, force, ev) ==
    LET args == Lit(<<"rm">>) \o (IF force THEN Lit(<<"--force">>) ELSE << >>)
                    \o <<container>>
        status == RmStatus(cs, container, force, ev)
        left == {c \in cs : c.name # container /\ c.id # container}
    IN  IF status = 0 THEN [err |-> Nil, cs |-> left, call |-> args, status |-> 0]
        ELSE IF status = 1
        THEN [err |-> ExitStatus(status), cs |-> left, call |-> args, status |-> 1]
        ELSE [err |-> ExitStatus(status), cs |-> cs, call |-> args, status |-> status]

\* errors.As(err, &target) with target a variable of the interface type error:
\* every non-nil error is assignable to it, so it is true for each of them.
ErrorsAs(err, target) == err # Nil

\* Lines 92-98 and 126-132
rmError(err, container) ==
    IF ErrorsAs(err, ErrRunningContainer)
    THEN <<"container", " ">> \o container \o <<" ", "is running">>
    ELSE IF ErrorsAs(err, ErrNonExistent)
    THEN <<"container", " ">> \o container \o <<" ", "does not exist">>
    ELSE <<"failed to remove container", " ">> \o container

\* An engine that reports the toolbox label for every container it has.
ContainerInspectReplyLabelled(cs, container) ==
    IF \E c \in cs : c.name = container
    THEN [kind |-> "doc",
          doc |-> [Config |-> [Labels |-> {<<"com.github.debarshiray.toolbox", "=", "true">>}]]]
    ELSE [kind |-> "fail", doc |-> << >>]

\* The reply of "podman inspect --type container" from the engine's state.
ContainerInspectReply(cs, container) ==
    IF \E c \in cs : c.name = container
    THEN [kind |-> "doc",
          doc |-> [Config |-> [Labels |-> (CHOOSE c \in cs : c.name = container).labels]]]
    ELSE [kind |-> "fail", doc |-> << >>]

LabelToolbox == <<"com.github.debarshiray.toolbox", "=", "true">>

LabelFedoraToolbox == <<"com.redhat.component", "=", "fedora", "-", "toolbox">>

\* Lines 106-134: the containers named on the command line, in order.
RECURSIVE rmEach(_, _, _, _, _, _)
rmEach(cs, ims, args, events, force, calls) ==
    IF args = << >> THEN Res(Nil, Nil, calls, << >>, NoPull, cs, ims)
    ELSE
    LET container == Head(args)
        ins == PodmanInspect("container", container, ContainerInspectReply(cs, container))
        k1 == calls \o <<ins.call>>
        labels == ins.info.Config.Labels
        rmv == removeContainer(cs, container, force, Head(events))
        k2 == k1 \o <<rmv.call>>
    IN  IF ins.err # Nil
        THEN Res(<<"failed to inspect container", " ">> \o container, Nil, k1, << >>,
                 NoPull, cs, ims)
        ELSE IF LabelFedoraToolbox \notin labels /\ LabelToolbox \notin labels
        THEN Res(container \o <<" ", "is not a toolbox container">>, Nil, k1, << >>,
                 NoPull, cs, ims)
        ELSE IF rmv.err # Nil
        THEN [Res(rmError(rmv.err, container), Nil, k2, << >>, NoPull, rmv.cs, ims)
                 EXCEPT !.status = rmv.status, !.subject = container]
        ELSE rmEach(rmv.cs, ims, Tail(args), Tail(events), force, k2)

\* Lines 88-100: the listed containers, by ID.
RECURSIVE rmAll(_, _, _, _, _, _)
rmAll(cs, ims, ids, events, force, calls) ==
    IF ids = << >> THEN Res(Nil, Nil, calls, << >>, NoPull, cs, ims)
    ELSE
    LET containerID == Head(ids)
        rmv == removeContainer(cs, containerID, force, Head(events))
        k == calls \o <<rmv.call>>
    IN  IF rmv.err # Nil
        THEN [Res(rmError(rmv.err, containerID), Nil, k, << >>, NoPull, rmv.cs, ims)
                 EXCEPT !.status = rmv.status, !.subject = containerID]
        ELSE rmAll(rmv.cs, ims, Tail(ids), Tail(events), force, k)

\* "podman ps --format json --filter label=<label>": the IDs, in the engine's order
GetContainers(cs, label, order) ==
    [ids |-> SelectSeq(order, LAMBDA id : \E c \in cs : c.id = id /\ label \in c.labels),
     call |-> Lit(<<"ps", "--format", "json", "--filter">>) \o <<(<<"label", "=">> \o label)>>]

\* utils.JoinJSON("ID", a, b): a, then the elements of b whose ID is not in a
JoinJSON(a, b) ==
    a \o SelectSeq(b, LAMBDA id : \A i \in DOMAIN a : a[i] # id)

rmOsArgs(in) ==
    Lit(<<"toolbox", "rm">>)
        \o (IF in.deleteAll THEN Lit(<<"--all">>) ELSE << >>)
        \o (IF in.forceDelete THEN Lit(<<"--force">>) ELSE << >>)
        \o in.args

\* in.listFails: which of the two listings fails ("none", "old", "new");
\* in.events: what happens around each "podman rm", in order; in.order: the
\* order in which the engine lists its containers.
rm(h, cs, ims, in) ==
    IF IsInsideContainer(h) THEN forward(h, cs, ims, rmOsArgs(in), in.spawn)
    ELSE IF in.deleteAll
    THEN LET old == GetContainers(cs, LabelFedoraToolbox, in.order)
             new == GetContainers(cs, LabelToolbox, in.order)
         IN  IF in.listFails = "old"
             THEN Res(<<"failed to list containers with com.redhat.component=fedora-toolbox">>,
                      Nil, <<old.call>>, << >>, NoPull, cs, ims)
             ELSE IF in.listFails = "new"
             THEN Res(<<"failed to list containers with com.github.debarshiray.toolbox=true">>,
                      Nil, <<old.call, new.call>>, << >>, NoPull, cs, ims)
             ELSE rmAll(cs, ims, JoinJSON(old.ids, new.ids), in.events, in.forceDelete,
                        <<old.call, new.call>>)
    ELSE IF Len(in.args) = 0
    THEN Res(<<"missing argument for \"rm\"", "\n", "Run 'toolbox --help' for usage.">>,
             Nil, << >>, << >>, NoPull, cs, ims)
    ELSE rmEach(cs, ims, in.args, in.events, in.forceDelete, << >>)

-----------------------------------------------------------------------------
(* cmd/run.go, enter and reset *)

run(h, cs, ims) == Res(Nil, Nil, << >>, << >>, NoPull, cs, ims)

enter(h, cs, ims) == Res(Nil, Nil, << >>, << >>, NoPull, cs, ims)

reset(h, cs, ims) == Res(Nil, Nil, << >>, << >>, NoPull, cs, ims)

-----------------------------------------------------------------------------
(* cmd/root.go *)

\* The steps of setUpGlobals, with the cgroups probe made wherever the process
\* runs.
setUpGlobalsProbingEverywhere(h) ==
    IF h.cgroupsErr THEN <<"failed to get the cgroups version">>
    ELSE IF h.currentUserErr THEN <<"failed to get the current user">>
    ELSE IF Getenv(h, "SHELL") = << >>
    THEN <<"failed to get the current user's default shell">>
    ELSE IF h.executableErr = "executable"
    THEN <<"failed to get the path to the executable">>
    ELSE IF h.executableErr = "evalSymlinks"
    THEN <<"failed to resolve absolute path to the executable">>
    ELSE IF h.getwdErr THEN <<"failed to get the working directory">>
    ELSE Nil

\* setUpGlobals: the error it returns, Nil when every global is set.
\* h.cgroupsErr, h.currentUserErr and h.getwdErr tell whether
\* utils.GetCgroupsVersion, user.Current and os.Getwd fail; h.executableErr
\* tells which of os.Executable and filepath.EvalSymlinks fails, if any.
setUpGlobals(h) ==
    IF ~IsInsideContainer(h) /\ h.cgroupsErr
    THEN <<"failed to get the cgroups version">>
    ELSE IF h.currentUserErr THEN <<"failed to get the current user">>
    ELSE IF Getenv(h, "SHELL") = << >>
    THEN <<"failed to get the current user's default shell">>
    ELSE IF h.executableErr = "executable"
    THEN <<"failed to get the path to the executable">>
    ELSE IF h.executableErr = "evalSymlinks"
    THEN <<"failed to resolve absolute path to the executable">>
    ELSE IF h.getwdErr THEN <<"failed to get the working directory">>
    ELSE Nil

\* Execute: the exit code of the process for what the subcommand returned.  A
\* panic ends a Go program with status 2.
Execute(r) ==
    IF r.panic # Nil THEN 2
    ELSE IF r.err # Nil THEN 1
    ELSE 0

-----------------------------------------------------------------------------
(* Hosts *)

HomeDir == Path(<<"home", "user">>)

DBusSocket == Path(<<"var", "run", "dbus", "system_bus_socket">>)

KCMSocket == Path(<<"run", ".heim_org.h5l.kcm-socket">>)

\* A file system: what each path the program looks at resolves to.
FS(containerenv, toolboxenv, slashHome, home, media, mnt, runMedia, etcSh, usrSh, dbusSocket, kcmSocket) ==
    (Path(<<"run", ".containerenv">>) :> containerenv)
        @@ (Path(<<"run", ".toolboxenv">>) :> toolboxenv)
        @@ (Path(<<"home">>) :> slashHome)
        @@ (HomeDir :> home)
        @@ (Path(<<"media">>) :> media)
        @@ (Path(<<"mnt">>) :> mnt)
        @@ (Path(<<"run", "media">>) :> runMedia)
        @@ (Path(<<"etc", "profile.d", "toolbox.sh">>) :> etcSh)
        @@ (Path(<<"usr", "share", "profile.d", "toolbox.sh">>) :> usrSh)
        @@ (DBusSocket :> dbusSocket)
        @@ (KCMSocket :> kcmSocket)

Present == <<"present">>

BaseFS ==
    FS(ENOENT, ENOENT, Path(<<"home">>), HomeDir, Path(<<"media">>), Path(<<"mnt">>),
       Path(<<"run", "media">>), Path(<<"etc", "profile.d", "toolbox.sh">>), ENOENT,
       Path(<<"run", "dbus", "system_bus_socket">>), KCMSocket)

BaseEnv ==
    [v \in {preservedEnvironmentVariables[i] : i \in DOMAIN preservedEnvironmentVariables}
        |-> CASE v = "SHELL" -> Path(<<"bin", "bash">>)
              [] v = "TOOLBOX_PATH" -> Path(<<"usr", "bin", "toolbox">>)
              [] v = "XDG_RUNTIME_DIR" -> Path(<<"run", "user", "1000">>)
              [] v = "LANG" -> <<"C">>
              [] OTHER -> Unset]

\* A Fedora 35 workstation: every resource createContainer needs resolves.
BaseHost ==
    [fs |-> BaseFS,
     env |-> BaseEnv,
     groups |-> {"wheel"},
     versionID |-> <<"3", "5">>,
     cgroupsErr |-> FALSE,
     currentUserErr |-> FALSE,
     executableErr |-> "none",
     getwdErr |-> FALSE,
     executable |-> Path(<<"usr", "bin", "toolbox">>),
     executableBase |-> <<"toolbox">>,
     shell |-> Path(<<"bin", "bash">>),
     user |-> [HomeDir |-> HomeDir, Uid |-> <<"1000">>, Username |-> <<"user">>],
     podmanVersion |-> <<1, 9, 3>>,
     sessionHelper |-> [kind |-> "ok", path |-> Path(<<"run", "user", "1000", ".flatpak-helper", "monitor">>)],
     usrMount |-> [pointErr |-> FALSE, optionsErr |-> FALSE, point |-> Path(<<"usr">>),
                   options |-> <<"r", "o", ",", "r", "e", "l", "a", "t", "i", "m", "e">>],
     kcm |-> [kind |-> "sockets", sockets |-> <<<<"Stream", KCMSocket>>>>]]

\* The same machine seen from inside a toolbox container, and from inside a
\* container that is not one.
InToolboxHost ==
    [BaseHost EXCEPT !.fs = [@ EXCEPT ![Path(<<"run", ".containerenv">>)] = Present,
                                      ![Path(<<"run", ".toolboxenv">>)] = Present]]

InOtherContainerHost ==
    [BaseHost EXCEPT !.fs = [@ EXCEPT ![Path(<<"run", ".containerenv">>)] = Present]]

\* Inside a toolbox container made by a toolbox installed under /usr/local:
\* the binary is mounted at /usr/bin/toolbox and TOOLBOX_PATH names its place
\* on the host.  COLORTERM is set to the empty string, and HOME is a variable
\* outside the preserved list.
InToolboxLocalHost ==
    [InToolboxHost EXCEPT
        !.env = ("HOME" :> HomeDir)
                    @@ [@ EXCEPT !["TOOLBOX_PATH"] = Path(<<"usr", "local", "bin", "toolbox">>),
                                 !["COLORTERM"] = << >>]]

\* Inside a toolbox container whose environment lost TOOLBOX_PATH.
InToolboxNoPathHost ==
    [InToolboxHost EXCEPT !.env = [@ EXCEPT !["TOOLBOX_PATH"] = Unset]]

-----------------------------------------------------------------------------
(* Command lines and what the world answers *)

MaxRmArgs == 2

Dev == <<"dev">>

BadName == <<"dev", "/", "x">>

BadFlagName == <<"b", " ", "x">>

QualifiedImage ==
    <<"registry", ".", "fedoraproject", ".", "org", "/", "f", "3", "5", "/",
      "fedora", "-", "toolbox", ":", "3", "5">>

LocalImage == <<"localhost", "/", "fedora", "-", "toolbox", ":", "3", "5">>

RepoTagsReply(tags) == [kind |-> "doc", doc |-> [RepoTags |-> tags]]

InspectFails == [kind |-> "fail", doc |-> << >>]

\* The engine answers with a JSON list that has no element.
InspectEmpty == [kind |-> "empty", doc |-> << >>]

InspectReplies ==
    {InspectFails,
     InspectEmpty,
     RepoTagsReply(JsonNull),
     RepoTagsReply(JsonList(<< >>)),
     RepoTagsReply(JsonList(<<QualifiedImage>>))}

NoSpawn == [kind |-> "none", code |-> 0]

Spawns ==
    {[kind |-> "notfound", code |-> 0], [kind |-> "failed", code |-> 0],
     [kind |-> "exit", code |-> 0], [kind |-> "exit", code |-> 1]}

\* What the world answers to one "toolbox create" on the host: the answer to
\* the download prompt, the outcome of the engine's pull, the reply to
\* "inspect", whether the engine's create fails for a reason of its own, and
\* whether another client removes the container in the meantime.
GoodAnswers ==
    [answer |-> TRUE, pull |-> "ok", inspect |-> InspectFails, accepted |-> TRUE,
     removedMeanwhile |-> FALSE]

Answers ==
    {GoodAnswers,
     [GoodAnswers EXCEPT !.answer = FALSE],
     [GoodAnswers EXCEPT !.pull = "refused"],
     [GoodAnswers EXCEPT !.accepted = FALSE],
     [GoodAnswers EXCEPT !.removedMeanwhile = TRUE]}
        \cup {[GoodAnswers EXCEPT !.inspect = r] : r \in InspectReplies}

CommandLines(argss, flags, imgs, releases, assumeYess) ==
    [args : argss, container : flags, image : imgs, release : releases,
     assumeYes : assumeYess]

\* The inputs of one "toolbox create": the command line and, for each question
\* the run can put to the user, the engine or flatpak-spawn, the answer.
CreateInputs(clis, answers, spawns) ==
    {[args |-> c.args, container |-> c.container, image |-> c.image,
      release |-> c.release, assumeYes |-> c.assumeYes, answer |-> a.answer,
      pull |-> a.pull, inspect |-> a.inspect, accepted |-> a.accepted,
      removedMeanwhile |-> a.removedMeanwhile, spawn |-> s] :
        c \in clis, a \in answers, s \in spawns}

Events == {"gone", "running", "fails"}

\* What happens around each of n removals: the first that does not go well
\* ends the command, so at most one of them is not "ok".
EventSeqs(n) ==
    {[i \in 1..n |-> "ok"]}
        \cup {[i \in 1..n |-> IF i = k THEN e ELSE "ok"] : k \in 1..n, e \in Events}

Orders(names) ==
    {o \in [1..Cardinality(names) -> {ContainerID(n) : n \in names}] :
        \A i, j \in DOMAIN o : i # j => o[i] # o[j]}

\* The inputs of one "toolbox rm" on the host.
RmInputs(names) ==
    UNION {[args : [1..n -> names], deleteAll : {FALSE}, forceDelete : BOOLEAN,
            events : EventSeqs(n), listFails : {"none"}, order : {<< >>},
            spawn : {NoSpawn}] : n \in 1..MaxRmArgs}
        \cup [args : {<< >>}, deleteAll : {TRUE}, forceDelete : BOOLEAN,
              events : EventSeqs(Cardinality(names)), listFails : {"none"},
              order : Orders(names), spawn : {NoSpawn}]
        \cup [args : {<< >>}, deleteAll : BOOLEAN, forceDelete : {FALSE},
              events : {<< >>}, listFails : {"old", "new"},
              order : {<< >>}, spawn : {NoSpawn}]

\* The inputs of one "toolbox rm" inside a container.
RmForwardInputs(names) ==
    [args : {<< >>} \cup [1..1 -> names], deleteAll : BOOLEAN, forceDelete : BOOLEAN,
     events : {<< >>}, listFails : {"none"}, order : {<< >>}, spawn : Spawns]

-----------------------------------------------------------------------------
(* The state machine: one action per invocation of the program, and the     *)
(* other clients of the engine.                                             *)

Idle == [cmd |-> "none"]

\* What is known of the invocation that has just returned.
Observed(cmd, cli, r) ==
    [cmd |-> cmd, cli |-> cli, err |-> r.err, panic |-> r.panic, calls |-> r.calls,
     out |-> r.out, pull |-> r.pull, fwd |-> r.fwd, spawned |-> r.spawned,
     code |-> r.code, target |-> r.target, status |-> r.status,
     subject |-> r.subject, exit |-> Execute(r),
     pre |-> [cs |-> containers, ims |-> images, created |-> created]]

Finish(cmd, cli, r, made) ==
    /\ setUpGlobals(host) = Nil
    /\ containers' = r.cs
    /\ images' = r.ims
    /\ created' = (created \cup made) \cap Names(r.cs)
    /\ last' = Observed(cmd, cli, r)
    /\ UNCHANGED host

CreateDone(in, r) ==
    Finish("create",
           [args |-> in.args, container |-> in.container, image |-> in.image,
            release |-> in.release, assumeYes |-> in.assumeYes, inspect |-> in.inspect,
            spawn |-> in.spawn],
           r,
           IF r.err = Nil /\ r.panic = Nil /\ r.out # << >> THEN {r.target[1]} ELSE {})

Create(inputs) ==
    \E in \in inputs : CreateDone(in, create(host, containers, images, in))

RmDone(in, r) ==
    Finish("rm",
           [args |-> in.args, deleteAll |-> in.deleteAll, forceDelete |-> in.forceDelete,
            spawn |-> in.spawn],
           r, {})

Rm(inputs) ==
    \E in \in inputs : RmDone(in, rm(host, containers, images, in))

Run == Finish("run", << >>, run(host, containers, images), {})

Enter == Finish("enter", << >>, enter(host, containers, images), {})

Reset == Finish("reset", << >>, reset(host, containers, images), {})

\* Another client of the engine creates a container.
OtherCreates(names, labelss) ==
    /\ \E n \in names, ls \in labelss :
          /\ n \notin Names(containers)
          /\ containers' = containers
                 \cup {[name |-> n, id |-> ContainerID(n), labels |-> ls]}
    /\ created' = created
    /\ last' = Idle
    /\ UNCHANGED <<host, images>>

\* Another client of the engine removes a container.
OtherRemoves ==
    /\ \E n \in Names(containers) : containers' = {c \in containers : c.name # n}
    /\ created' = created \cap Names(containers')
    /\ last' = Idle
    /\ UNCHANGED <<host, images>>

\* An image appears in the local store, or disappears from it.
ImageChanges(refs) ==
    /\ \E ref \in refs :
          images' = (IF ref \in images THEN images \ {ref} ELSE images \cup {ref})
    /\ last' = Idle
    /\ UNCHANGED <<host, containers, created>>

EngineNames == {ContainerNameDefault(BaseHost), Dev}

ToolboxLabels ==
    {<<"com.github.containers.toolbox", "=", "true">>, LabelToolbox}

Start(hosts) ==
    /\ host \in hosts
    /\ containers = {}
    /\ images = {}
    /\ created = {}
    /\ last = Idle

-----------------------------------------------------------------------------
(* "toolbox create" on the host, next to the other clients of the engine *)

\* Every way of naming the container, and then the two usual command lines
\* under every answer of the world.
NamingCommandLines ==
    CommandLines({<< >>, <<Dev>>, <<BadName>>, << << >> >>}, {<< >>, BadFlagName},
                 {<< >>, QualifiedImage}, {-1}, {TRUE})
        \cup CommandLines({<< >>}, {<< >>}, {<< >>}, {36}, {TRUE})

UsualCommandLines ==
    CommandLines({<<Dev>>}, {<< >>}, {QualifiedImage}, {-1}, BOOLEAN)
        \cup CommandLines({<< >>}, {<< >>}, {<< >>}, {-1}, BOOLEAN)

HostCreateInputs ==
    CreateInputs(NamingCommandLines, {GoodAnswers}, {NoSpawn})
        \cup CreateInputs(UsualCommandLines, Answers, {NoSpawn})

Init == Start({BaseHost})

Next ==
    \/ Create(HostCreateInputs)
    \/ OtherCreates(EngineNames, {ToolboxLabels})
    \/ OtherRemoves
    \/ ImageChanges({QualifiedImage})

Spec == Init /\ [][Next]_vars

-----------------------------------------------------------------------------
(* Properties of "toolbox create" on the host *)

\* The engine "create" invocations of the invocation that has just returned.
CreateCalls == {i \in DOMAIN last.calls : Head(last.calls[i]) = S("create")}

\* createContainer was called by the "toolbox create" that has just returned.
CalledCreateContainer == last.cmd = "create" /\ last.target # << >>

\* C1: once a createContainer call for a name has succeeded and the container
\* is still there, a later createContainer call for that name returns the
\* "already exists" error and issues no engine "create".
C1_Idempotent ==
    (CalledCreateContainer /\ last.target[1] \in last.pre.created)
        => /\ last.err = ErrAlreadyExists(last.target[1],
                                          getEnterCommand(host, last.target[1],
                                                          last.target[3]))
           /\ CreateCalls = {}

\* C2: when pullImage fails inside createContainer, createContainer returns an
\* error, the process exits with 1 and no engine "create" is issued.
C2_PullFailureIsAnError ==
    (CalledCreateContainer /\ last.pull.called /\ last.pull.err # Nil)
        => /\ last.err # Nil
           /\ last.exit = 1
           /\ CreateCalls = {}

\* C3: on the host, with the container absent from the engine, the image in
\* the local store and every resource resolving, createContainer issues
\* exactly one engine "create" carrying --name <name>, --hostname toolbox,
\* --userns=keep-id and a bind mount of the canonicalized home directory, and
\* returns nil after printing "Created container: <name>".
C3_CreatesTheContainer ==
    (/\ CalledCreateContainer
     /\ ~IsInsideContainer(host)
     /\ last.target[1] \notin Names(last.pre.cs)
     /\ last.target[2] \in last.pre.ims)
        => /\ Cardinality(CreateCalls) = 1
           /\ \A i \in CreateCalls :
                 /\ HasPair(last.calls[i], S("--name"), last.target[1])
                 /\ HasPair(last.calls[i], S("--hostname"), S("toolbox"))
                 /\ Has(last.calls[i], S("--userns=keep-id"))
                 /\ HasPair(last.calls[i], S("--volume"),
                            HomeDir \o <<":">> \o HomeDir \o <<":", "rslave">>)
           /\ last.err = Nil
           /\ last.panic = Nil
           /\ \E j \in DOMAIN last.out :
                 last.out[j] = <<"Created container:", " ">> \o last.target[1]

\* The name the caller gave "toolbox create": the positional argument when
\* there is one, the value of --container otherwise.
NameSupplied(cli) == Len(cli.args) # 0 \/ cli.container # << >>

SuppliedName(cli) == IF Len(cli.args) # 0 THEN cli.args[1] ELSE cli.container

SuppliedArg(cli) == IF Len(cli.args) # 0 THEN "CONTAINER" ELSE "--container"

\* C9: "toolbox create" with a name from the caller (the positional argument
\* before --container) that fails the naming pattern returns the invalid-name
\* error before the names are resolved, and issues no engine call.
C9_InvalidNameIsRejected ==
    (/\ last.cmd = "create"
     /\ ~IsInsideContainer(host)
     /\ NameSupplied(last.cli)
     /\ IsContainerNameValid(SuppliedName(last.cli)) # Nil)
        => /\ last.err = ErrInvalidName(SuppliedArg(last.cli))
           /\ last.target = << >>
           /\ last.calls = << >>
           /\ ~last.pull.called

\* The "toolbox create" that has just returned showed an "Enter with:" hint,
\* on its output or in its "already exists" error.
EnterHintShown ==
    /\ CalledCreateContainer
    /\ \/ last.out # << >>
       \/ \E i \in DOMAIN last.err : last.err[i] = "Enter with:"

ShownEnterHint(enterCommand) ==
    \/ last.out # << >> /\ last.out[2] = <<"Enter with:", " ">> \o enterCommand
    \/ last.err = ErrAlreadyExists(last.target[1], enterCommand)

\* The hint the resolved identity calls for.
EnterHintFor(container, release) ==
    IF container = ContainerNameDefault(host)
    THEN host.executableBase \o <<" ", "enter">>
    ELSE IF container = ContainerNamePrefixDefault \o <<"-">> \o release
            /\ release # host.versionID
    THEN host.executableBase \o <<" ", "enter", " ", "--release", " ">> \o release
    ELSE host.executableBase \o <<" ", "enter", " ", "--container", " ">> \o container

\* C12: the "Enter with:" hint is "<exe> enter" for the bare default container
\* name, "<exe> enter --release R" for the default name prefix followed by "-"
\* and an explicit release R that is not the default one, and
\* "<exe> enter --container N" for any other name N.
C12_EnterHintByIdentity ==
    EnterHintShown => ShownEnterHint(EnterHintFor(last.target[1], last.target[3]))

\* The "toolbox create" that has just returned asked the engine to inspect
\* the image, and got a well-formed JSON reply.
ImageInspected ==
    /\ last.cmd = "create"
    /\ \E i \in DOMAIN last.calls :
          last.calls[i] = Lit(<<"inspect", "--format", "json", "--type", "image">>)
                              \o <<last.target[2]>>
    /\ last.cli.inspect.kind # "fail"

\* The reply holds a document whose RepoTags is a list with an element.
RepoTagsListed ==
    /\ last.cli.inspect.kind = "doc"
    /\ last.cli.inspect.doc.RepoTags.t # "nil"
    /\ Len(last.cli.inspect.doc.RepoTags.v) > 0

\* C21: an operation that reads a field of a well-formed engine reply
\* returns an error, and does not crash, when the field is absent or has the
\* wrong shape (an inspect reply that is an empty list, RepoTags that is
\* null or an empty list); for an image without registry domain whose
\* inspect reply has a non-empty RepoTags list, getFullyQualifiedImageName
\* returns the first tag, which the engine "create" is then given.
C21_ReplyFieldsAreChecked ==
    ImageInspected =>
        /\ last.panic = Nil
        /\ IF RepoTagsListed
           THEN /\ Cardinality(CreateCalls) = 1
                /\ \A c \in CreateCalls :
                       Has(last.calls[c], last.cli.inspect.doc.RepoTags.v[1])
           ELSE last.err # Nil /\ CreateCalls = {}

-----------------------------------------------------------------------------
(* Every subcommand inside a container *)

ForwardCreateInputs ==
    CreateInputs(NamingCommandLines \cup UsualCommandLines, {GoodAnswers}, Spawns)

ContextHosts ==
    {InToolboxHost, InToolboxLocalHost, InToolboxNoPathHost, InOtherContainerHost}

InitContext == Start(ContextHosts)

NextContext ==
    \/ Create(ForwardCreateInputs)
    \/ Rm(RmForwardInputs(EngineNames))
    \/ Run
    \/ Enter
    \/ Reset

SpecContext == InitContext /\ [][NextContext]_vars

\* C4: when create or rm, inside a toolbox container, forwards the command
\* line to the host and the forwarded process exits, this process exits with
\* the same code.
C4_ForwardedExitCode ==
    (/\ last.cmd \in {"create", "rm"}
     /\ IsInsideToolboxContainer(host)
     /\ last.spawned = "exit")
        => last.exit = last.code

\* C5: inside a container that is not a toolbox container, every subcommand
\* returns the "not a toolbox container" error and neither calls the engine
\* nor forwards to the host.
C5_NotAToolboxContainer ==
    (/\ last.cmd \in {"create", "rm", "run", "enter", "reset"}
     /\ IsInsideContainer(host)
     /\ ~IsInsideToolboxContainer(host))
        => /\ last.err = <<"this is not a toolbox container">>
           /\ last.calls = << >>
           /\ last.fwd = << >>

\* The argv of the invocation that has just returned.
OsArgsOf(l) == IF l.cmd = "create" THEN createOsArgs(l.cli) ELSE rmOsArgs(l.cli)

Forwarded == last.cmd \in {"create", "rm"} /\ last.fwd # << >>

\* The preserved variables that are set in the environment of this process.
PreservedAndSet ==
    {v \in DOMAIN host.env :
        /\ \E i \in DOMAIN preservedEnvironmentVariables : preservedEnvironmentVariables[i] = v
        /\ host.env[v] # Unset}

\* The arguments before "--host" are one --env=KEY=VALUE for each preserved
\* variable that is set, and nothing else; the arguments after the program
\* named behind "--host" are the argv of this process after its own name.
ForwardedAround(args) ==
    LET n == Cardinality(PreservedAndSet)
    IN  /\ Len(args) = n + 2 + Len(OsArgsOf(last)) - 1
        /\ {args[i] : i \in 1..n}
              = {<<"--env", "=", v, "=">> \o host.env[v] : v \in PreservedAndSet}
        /\ args[n + 1] = S("--host")
        /\ SubSeq(args, n + 3, Len(args)) = Tail(OsArgsOf(last))

ForwardedProgram(args) == args[Cardinality(PreservedAndSet) + 2]

C23_ForwardResult ==
    Forwarded =>
        /\ (last.code = 0 /\ last.err = Nil)
               => last.cli.spawn = [kind |-> "exit", code |-> 0]
        /\ last.cli.spawn.kind = "notfound"
               => last.err = <<"flatpak-spawn(1) not found">>
        /\ (last.cli.spawn.kind = "failed" \/ last.cli.spawn.code # 0)
               => (last.code # 0 \/ last.err # Nil)

-----------------------------------------------------------------------------
(* "toolbox rm" on the host, next to the other clients of the engine *)

InitRm == Start({BaseHost})

NextRm ==
    \/ Rm(RmInputs(EngineNames))
    \/ OtherCreates(EngineNames, {{}, {LabelToolbox}, {LabelFedoraToolbox}})
    \/ OtherRemoves

SpecRm == InitRm /\ [][NextRm]_vars

\* C10: when the engine's "rm" of container X fails, rm reports "container X
\* does not exist" for exit status 1, "container X is running" for exit
\* status 2 and "failed to remove container X" for every other status.
C10_RmErrorByStatus ==
    (last.cmd = "rm" /\ last.status # 0)
        => last.err =
               (CASE last.status = 1 ->
                         <<"container", " ">> \o last.subject \o <<" ", "does not exist">>
                  [] last.status = 2 ->
                         <<"container", " ">> \o last.subject \o <<" ", "is running">>
                  [] OTHER -> <<"failed to remove container", " ">> \o last.subject)

\* "toolbox rm" without --all has just returned, on the host.
RmByName == last.cmd = "rm" /\ ~IsInsideContainer(host) /\ ~last.cli.deleteAll

\* The containers that carry neither of the two toolbox labels.
Bare(cs) == {c.name : c \in {d \in cs : LabelFedoraToolbox \notin d.labels
                                        /\ LabelToolbox \notin d.labels}}

\* Where the command line names such a container, and the first such place.
BarePositions == {j \in DOMAIN last.cli.args : last.cli.args[j] \in Bare(last.pre.cs)}

FirstBare == CHOOSE k \in BarePositions : \A j \in BarePositions : k <= j

IsEngineRm(call) == Head(call) = S("rm")

IsContainerInspect(call) == Head(call) = S("inspect")

\* The containers the engine was told to remove, in order.
RmTargets ==
    [i \in DOMAIN SelectSeq(last.calls, IsEngineRm) |->
        SelectSeq(last.calls, IsEngineRm)[i][Len(SelectSeq(last.calls, IsEngineRm)[i])]]

\* No engine "rm" names a container without a toolbox label, and no container
\* named at FirstBare or later is removed unless it was named before as well.
BareIsSpared ==
    /\ \A i \in DOMAIN RmTargets : RmTargets[i] \notin Bare(last.pre.cs)
    /\ Len(RmTargets) < FirstBare
    /\ \A j \in FirstBare..Len(last.cli.args) :
          (/\ last.cli.args[j] \in Names(last.pre.cs)
           /\ \A i \in 1..(FirstBare - 1) : last.cli.args[i] # last.cli.args[j])
              => last.cli.args[j] \in Names(containers)

\* rm ended at FirstBare: the error names it and every name before it was
\* removed.
EndedAtFirstBare ==
    /\ last.err = last.cli.args[FirstBare] \o <<" ", "is not a toolbox container">>
    /\ RmTargets = SubSeq(last.cli.args, 1, FirstBare - 1)
    /\ \A j \in 1..(FirstBare - 1) : last.cli.args[j] \notin Names(containers)

\* C22 as stated: rm without --all issues no engine "rm" for a container
\* without a toolbox label; for the first such name of the argument list it
\* returns "<name> is not a toolbox container", nothing named at or after it
\* is removed and the containers named before it are removed.
C22_StopsAtFirstBare ==
    (RmByName /\ BarePositions # {}) => (BareIsSpared /\ EndedAtFirstBare)

\* C22: rm without --all issues no engine "rm" for a container without a
\* toolbox label and removes nothing named at or after the first such name;
\* when it gets as far as that name, every name before it having been
\* inspected and removed, it returns "<name> is not a toolbox container";
\* otherwise it has ended at an earlier name with an error.
C22_SparesBareContainers ==
    (RmByName /\ BarePositions # {}) =>
        /\ BareIsSpared
        /\ IF Len(SelectSeq(last.calls, IsContainerInspect)) >= FirstBare
           THEN EndedAtFirstBare
           ELSE last.err # Nil

C22_Witness ==
    /\ RmByName
    /\ BarePositions = {2}
    /\ EndedAtFirstBare
    /\ Len(RmTargets) = 1

-----------------------------------------------------------------------------
(* pullImage on its own: every reference against every local store *)

ShortImage == <<"fedora", "-", "toolbox", ":", "3", "5">>

LocalhostImage == <<"localhost", "/", "scratch">>

IdImage == <<"c", "0", "f", "f", "e", "e">>

PullReferences == {ShortImage, QualifiedImage, LocalhostImage, IdImage}

LocalIdImage == <<"localhost", "/">> \o IdImage

StoredReferences == {LocalImage, QualifiedImage, IdImage, LocalIdImage}

PullOutcomes == {"ok", "503", "refused", "manifest", "other"}

PullImageDone(image, release, assumeYes, answer, r) ==
    /\ images' = r.ims
    /\ last' = [cmd |-> "pullImage", image |-> image, release |-> release,
                assumeYes |-> assumeYes, answer |-> answer, ok |-> r.ok,
                err |-> r.err, panic |-> r.panic, calls |-> r.calls,
                asked |-> r.asked, pre |-> [ims |-> images]]
    /\ UNCHANGED <<host, containers, created>>

\* One call of pullImage.  The answer of a user who is not asked, and the
\* outcome of a pull that is not reached, are fixed.
PullImageCall ==
    \E image \in PullReferences, assumeYes \in BOOLEAN, answer \in BOOLEAN,
       outcome \in PullOutcomes :
        /\ assumeYes => answer
        /\ ~answer => outcome = "ok"
        /\ PullImageDone(image, host.versionID, assumeYes, answer,
                         pullImage(images, image, host.versionID, assumeYes, answer,
                                   outcome))

InitPull ==
    /\ host = BaseHost
    /\ containers = {}
    /\ images \in SUBSET StoredReferences
    /\ created = {}
    /\ last = Idle

NextPull ==
    \/ PullImageCall
    \/ ImageChanges(StoredReferences)

SpecPull == InitPull /\ [][NextPull]_vars

\* The engine "pull" invocations of the pullImage call that has just returned.
PullCalls == {i \in DOMAIN last.calls : Head(last.calls[i]) = S("pull")}

\* The query "image exists localhost/<image>" was put and succeeded.
LocalTagFound ==
    /\ last.cmd = "pullImage"
    /\ \E i \in DOMAIN last.calls :
          last.calls[i] = Lit(<<"image", "exists">>) \o <<(<<"localhost", "/">> \o last.image)>>
    /\ (<<"localhost", "/">> \o last.image) \in last.pre.ims

\* C6 as stated: pullImage, for a reference that exists locally as
\* localhost/<image>, returns false with no error and never pulls.
C6_LocalTagReturnsFalse ==
    LocalTagFound => (~last.ok /\ last.err = Nil /\ last.panic = Nil /\ PullCalls = {})

\* C6: pullImage, for a reference that exists locally as localhost/<image>,
\* returns true with no error and never pulls.
C6_LocalTagReturnsTrue ==
    LocalTagFound => (last.ok /\ last.err = Nil /\ last.panic = Nil /\ PullCalls = {})

C6_Witness == LocalTagFound /\ last.image = ShortImage /\ last.ok

\* No query of the pullImage call that has just returned found the image, and
\* the reference it resolved has a domain.
NoLocalMatch ==
    /\ last.cmd = "pullImage"
    /\ \A i \in DOMAIN last.calls :
          Head(last.calls[i]) = S("image") => last.calls[i][3] \notin last.pre.ims
    /\ last.panic = Nil

ResolvedDomain == ImageReferenceGetDomain(imageFullOf(last.image, last.release))

\* C7: in pullImage, when no local image matches, the user is asked exactly
\* when assumeYes is false and the resolved domain is not "localhost"; a
\* declined prompt gives "cancelled by user" and no pull; with assumeYes or
\* the domain "localhost" the pull is made without a prompt.
C7_PromptBeforePull ==
    NoLocalMatch =>
        /\ last.asked <=> (~last.assumeYes /\ ResolvedDomain # <<"localhost">>)
        /\ (last.asked /\ ~last.answer)
               => (last.err = <<"cancelled by user">> /\ PullCalls = {})
        /\ (last.assumeYes \/ ResolvedDomain = <<"localhost">>)
               => (~last.asked /\ Cardinality(PullCalls) = 1)

C7_Witness ==
    /\ NoLocalMatch
    /\ last.asked
    /\ ~last.answer
    /\ last.err = <<"cancelled by user">>

\* The references pullImage may look for, in order: the reference as given
\* when it can be an image id, localhost/<image> when the reference has no
\* domain, and the fully qualified reference.
FullyQualified(image, release) ==
    IF ImageReferenceHasDomain(image) THEN image
    ELSE <<"registry", ".", "fedoraproject", ".", "org", "/", "f">> \o release
             \o <<"/">> \o image

Candidates(image, release) ==
    (IF ImageReferenceCanBeID(image) = Nil THEN <<image>> ELSE << >>)
        \o (IF ~ImageReferenceHasDomain(image) THEN <<(<<"localhost", "/">> \o image)>>
            ELSE << >>)
        \o <<FullyQualified(image, release)>>

IsExistsQuery(call) == Head(call) = S("image") /\ call[2] = S("exists")

\* The references the pullImage call that has just returned asked the engine
\* about, in order.
Queried == [i \in DOMAIN SelectSeq(last.calls, IsExistsQuery) |-> SelectSeq(last.calls, IsExistsQuery)[i][3]]

\* C15: pullImage looks for (1) the reference as given, only if it can be an
\* image id, (2) localhost/<image>, only if the reference has no domain, (3)
\* the fully qualified reference, in this order; it stops at the first one
\* the engine has, asks about a later one only when every earlier one is
\* absent, and pulls only when all are absent, always the reference of (3).
C15_ResolutionOrder ==
    last.cmd = "pullImage" =>
        LET cand == Candidates(last.image, last.release)
            n == Len(Queried)
        IN  /\ n \in 1..Len(cand)
            /\ Queried = SubSeq(cand, 1, n)
            /\ \A i \in 1..(n - 1) : cand[i] \notin last.pre.ims
            /\ n < Len(cand) => cand[n] \in last.pre.ims
            /\ (\E i \in 1..Len(cand) : cand[i] \in last.pre.ims)
                   => (PullCalls = {} /\ last.ok /\ last.err = Nil)
            /\ \A i \in PullCalls :
                   last.calls[i] = Lit(<<"pull">>) \o <<FullyQualified(last.image, last.release)>>

C15_Witness ==
    /\ last.cmd = "pullImage"
    /\ last.image = IdImage
    /\ Len(Queried) = 3
    /\ PullCalls # {}

-----------------------------------------------------------------------------
(* "toolbox create" on hosts of every layout *)

VarHome == Path(<<"var", "home">>)

\* A host whose /home, /media, /mnt and /run/media are as given; the home
\* directory of the user is below what /home resolves to.
LayoutHost(slashHome, media, mnt, runMedia) ==
    [BaseHost EXCEPT
        !.fs = FS(ENOENT, ENOENT, slashHome, slashHome \o Path(<<"user">>), media, mnt,
                  runMedia, Path(<<"etc", "profile.d", "toolbox.sh">>), ENOENT,
                  Path(<<"run", "dbus", "system_bus_socket">>), KCMSocket)]

LayoutHosts ==
    {LayoutHost(slashHome, media, mnt, runMedia) :
        slashHome \in {Path(<<"home">>), VarHome},
        media \in {ENOENT, Path(<<"media">>), Path(<<"run", "media">>)},
        mnt \in {ENOENT, Path(<<"mnt">>), Path(<<"var", "mnt">>)},
        runMedia \in {ENOENT, Path(<<"run", "media">>)}}

LayoutCreateInputs ==
    CreateInputs(CommandLines({<<Dev>>}, {<< >>}, {QualifiedImage}, {-1}, {TRUE}),
                 {GoodAnswers, [GoodAnswers EXCEPT !.removedMeanwhile = TRUE]},
                 {NoSpawn})

InitLayout == Start(LayoutHosts)

NextLayout ==
    \/ Create(LayoutCreateInputs)
    \/ OtherCreates({Dev}, {ToolboxLabels})
    \/ OtherRemoves

SpecLayout == InitLayout /\ [][NextLayout]_vars

\* The bind mounts of an engine "create" invocation, and those of a source.
Volumes(args) == {args[j + 1] : j \in {i \in 1..(Len(args) - 1) : args[i] = S("--volume")}}

MountsOf(args, source) ==
    {v \in Volumes(args) :
        Len(v) > Len(source) /\ SubSeq(v, 1, Len(source) + 1) = source \o <<":">>}

\* A flag among the arguments of the container's entry point.
InEntryPoint(args, flag) ==
    \E j \in DOMAIN args :
        args[j] = flag /\ \E k \in 1..(j - 1) : args[k] = S("init-container")

SlashHomeIsVarHome == EvalSymlinks(host, Path(<<"home">>)).path = VarHome

HomeDirEvaled == EvalSymlinks(host, host.user.HomeDir).path

LinkOrMount(args, path, target, flag) ==
    /\ IF PathExists(host, path) /\ EvalSymlinks(host, path).path = target
       THEN InEntryPoint(args, flag) /\ MountsOf(args, path) = {}
       ELSE PathExists(host, path)
                => /\ MountsOf(args, path) = {path \o <<":">> \o path \o <<":", "rslave">>}
                   /\ ~Has(args, flag)
    /\ ~(Has(args, flag) /\ MountsOf(args, path) # {})

\* C16: for /media and /mnt, when the path canonicalizes to its known target
\* (/run/media, /var/mnt) the create invocation carries the topology flag
\* (--media-link, --mnt-link) and no bind mount of the path; otherwise, if the
\* path exists, it carries an rslave bind mount of it and no flag; the flag
\* and the mount of one path are never both present.
C16_LinkFlagOrMount ==
    last.cmd = "create" =>
        \A c \in CreateCalls :
            /\ LinkOrMount(last.calls[c], Path(<<"media">>), Path(<<"run", "media">>),
                           S("--media-link"))
            /\ LinkOrMount(last.calls[c], Path(<<"mnt">>), Path(<<"var", "mnt">>),
                           S("--mnt-link"))

\* The host paths that are mounted only when they are there.
OptionalSources ==
    {Path(<<"media">>), Path(<<"mnt">>), Path(<<"run", "media">>), KCMSocket}
        \cup {createToolboxShMounts[i].source : i \in DOMAIN createToolboxShMounts}

\* C14: the create invocation carries a bind mount of an optional host path
\* (/media, /mnt, /run/media, the toolbox.sh profile script, the KCM socket)
\* only if that path exists on the host; an absent path has no entry.
C14_OptionalMountOnlyIfPresent ==
    last.cmd = "create" =>
        \A c \in CreateCalls :
            \A p \in OptionalSources :
                MountsOf(last.calls[c], p) # {} => PathExists(host, p)

-----------------------------------------------------------------------------
(* "toolbox create" on hosts whose environment and services differ *)

\* The file system of the workstation, /tmp included.
ResourceFS == (Path(<<"tmp">>) :> Path(<<"tmp">>)) @@ BaseFS

ResourceHost == [BaseHost EXCEPT !.fs = ResourceFS]

\* Values of DBUS_SYSTEM_BUS_ADDRESS: unset, empty, the usual socket, a socket
\* that is not there, a path followed by a guid, a directory address, an
\* abstract socket, a TCP address, and a transport without any value.
DBusAddresses ==
    {Unset,
     << >>,
     <<"unix", ":", "path", "=">> \o DBusSocket,
     <<"unix", ":", "path", "=">> \o Path(<<"run", "dbus", "missing">>),
     <<"unix", ":", "path", "=">> \o DBusSocket \o <<",", "guid", "=", "0123">>,
     <<"unix", ":", "dir", "=">> \o Path(<<"tmp">>),
     <<"unix", ":", "abstract", "=">> \o Path(<<"tmp", "dbus-x">>),
     <<"tcp", ":", "host", "=", "localhost", ",", "port", "=", "1234">>,
     <<"unix", ":", "path">>}

\* Mount options of /usr, character by character: ro,relatime  rw,relatime
\* rw,errors=remount-ro  rw,relatime,ro  rw  ro
UsrMountOptions ==
    {<<"r", "o", ",", "r", "e", "l", "a", "t", "i", "m", "e">>,
     <<"r", "w", ",", "r", "e", "l", "a", "t", "i", "m", "e">>,
     <<"r", "w", ",", "e", "r", "r", "o", "r", "s", "=", "r", "e", "m", "o", "u", "n",
       "t", "-", "r", "o">>,
     <<"r", "w", ",", "r", "e", "l", "a", "t", "i", "m", "e", ",", "r", "o">>,
     <<"r", "w">>,
     <<"r", "o">>}

\* Each host differs from the workstation in one resource.
ResourceHosts ==
    {ResourceHost}
        \cup {[ResourceHost EXCEPT !.env = [@ EXCEPT !["DBUS_SYSTEM_BUS_ADDRESS"] = a]] :
                  a \in DBusAddresses}
        \cup {[ResourceHost EXCEPT !.env = [@ EXCEPT !["XDG_RUNTIME_DIR"] = d]] :
                  d \in {Unset, HomeDir}}
        \cup {[ResourceHost EXCEPT !.usrMount = [@ EXCEPT !.options = o]] :
                  o \in UsrMountOptions}
        \cup {[ResourceHost EXCEPT !.usrMount = [@ EXCEPT !.pointErr = TRUE]],
              [ResourceHost EXCEPT !.usrMount = [@ EXCEPT !.optionsErr = TRUE]]}
        \cup {[ResourceHost EXCEPT !.groups = g] : g \in {{}, {"sudo"}, {"sudo", "wheel"}}}
        \cup {[ResourceHost EXCEPT !.sessionHelper = [@ EXCEPT !.kind = k]] :
                  k \in {"noBus", "callFailed", "badReply"}}
        \cup {[ResourceHost EXCEPT !.fs = [@ EXCEPT ![HomeDir] = ENOENT]]}
        \cup {[ResourceHost EXCEPT !.kcm = [@ EXCEPT !.kind = k]] :
                  k \in {"noBus", "noProperties", "noListen"}}
        \cup {[ResourceHost EXCEPT !.kcm = [@ EXCEPT !.sockets = s]] :
                  s \in {<< >>, <<<<"Datagram", KCMSocket>>>>,
                         <<<<"Stream", <<"@", "kcm">>>>>>,
                         <<<<"Stream", Path(<<"run", "missing">>)>>>>}}
        \cup {[ResourceHost EXCEPT !.podmanVersion = <<1, 4, 2>>]}

InitResources == Start(ResourceHosts)

NextResources ==
    \/ Create(LayoutCreateInputs)
    \/ OtherCreates({Dev}, {ToolboxLabels})
    \/ OtherRemoves

SpecResources == InitResources /\ [][NextResources]_vars

\* Where the bind mounts of an engine "create" invocation stand in its argv,
\* and the container path of a bind mount: what follows its first colon.
VolumeAt(args) == {j + 1 : j \in {i \in 1..(Len(args) - 1) : args[i] = S("--volume")}}

Destination(volume) == Split(volume, ":")[2]

\* C13: in every engine "create" invocation built by createContainer, on any
\* host, the container paths of the --volume arguments are pairwise distinct.
C13_DistinctDestinations ==
    last.cmd = "create" =>
        \A c \in CreateCalls :
            \A i, j \in VolumeAt(last.calls[c]) :
                i # j => Destination(last.calls[c][i]) # Destination(last.calls[c][j])

\* The mount options of the host's /usr, one by one, hold no option "ro".
UsrMarkedWritable ==
    \A i \in DOMAIN Split(host.usrMount.options, ",") :
        Split(host.usrMount.options, ",")[i] # <<"r", "o">>

UsrMount(mode) ==
    Path(<<"usr">>) \o <<":">> \o Path(<<"run", "host", "usr">>) \o <<":", mode, ",", "rslave">>

\* C17: the host's /usr is bind-mounted with mode rw if and only if the mount
\* options of its mount point hold no option "ro" of their own, and with mode
\* ro otherwise; the letters "ro" inside another option (errors=remount-ro)
\* do not make the mount read-only.
C17_UsrModeFollowsRoOption ==
    last.cmd = "create" =>
        \A c \in CreateCalls :
            MountsOf(last.calls[c], Path(<<"usr">>))
                = {UsrMount(IF UsrMarkedWritable THEN "rw" ELSE "ro")}

\* The address of the D-Bus system bus: what the variable holds, or the
\* default when it is unset or empty.
DBusAddress ==
    IF host.env["DBUS_SYSTEM_BUS_ADDRESS"] \in {Unset, << >>}
    THEN <<"unix", ":", "path", "=">> \o Path(<<"var", "run", "dbus", "system_bus_socket">>)
    ELSE host.env["DBUS_SYSTEM_BUS_ADDRESS"]

\* What follows "unix:path=" in the address, when the address has that form.
DBusAddressPath == SubSeq(DBusAddress, 5, Len(DBusAddress))

DBusAddressIsUnixPath ==
    /\ Len(DBusAddress) > 4
    /\ SubSeq(DBusAddress, 1, 4) = <<"unix", ":", "path", "=">>
    /\ EvalSymlinks(host, DBusAddressPath).err = Nil

DBusErrors ==
    {<<"failed to get the path to the D-Bus system socket">>,
     <<"failed to resolve the path to the D-Bus system socket">>}

\* createContainer got as far as getDBusSystemSocket: the engine's version
\* was asked for, which is the step before.
DBusSocketAsked ==
    /\ last.cmd = "create"
    /\ \E i \in DOMAIN last.calls : last.calls[i] = Lit(<<"version", "-f", "json">>)

\* C18: getDBusSystemSocket returns a path only for an address of the form
\* unix:path=<path> (the default address when the variable is unset or empty)
\* whose path canonicalizes, and then the canonical path; for every other
\* address it returns an error, which createContainer returns, and no path.
C18_DBusSocketOnlyForUnixPath ==
    DBusSocketAsked =>
        IF DBusAddressIsUnixPath
        THEN /\ last.err \notin DBusErrors
             /\ \A c \in CreateCalls :
                    LET socket == EvalSymlinks(host, DBusAddressPath).path
                    IN  MountsOf(last.calls[c], socket) = {socket \o <<":">> \o socket}
        ELSE last.err \in DBusErrors /\ CreateCalls = {}

\* createContainer got as far as the host's resources: the existence query
\* let it pass, the image is in place and its name is fully qualified.
ResourcesAsked ==
    /\ last.cmd = "create"
    /\ last.pull.called /\ last.pull.err = Nil /\ last.pull.panic = Nil
    /\ ImageReferenceHasDomain(last.target[2])

\* One of the resources createContainer cannot do without does not resolve:
\* the group for sudo, the D-Bus system socket, the monitor path of the
\* session helper, the home directory, the mount options of /usr.
RequiredResourceFails ==
    \/ host.groups \cap {"sudo", "wheel"} = {}
    \/ getDBusSystemSocket(host).err # Nil
    \/ host.sessionHelper.kind # "ok"
    \/ ~PathExists(host, host.user.HomeDir)
    \/ host.usrMount.pointErr \/ host.usrMount.optionsErr

KCMSocketFails == getKCMSocket(host).err # Nil

\* The paths sssd-kcm.socket listens on, as far as the host tells.
KCMListenPaths == {host.kcm.sockets[i][2] : i \in DOMAIN host.kcm.sockets}

-----------------------------------------------------------------------------
(* The start of every invocation: setUpGlobals, then the subcommand *)

\* The workstation and the toolbox container, each as it is and with one of
\* the things setUpGlobals asks for out of reach.
StartupHosts ==
    UNION {{h,
            [h EXCEPT !.cgroupsErr = TRUE],
            [h EXCEPT !.currentUserErr = TRUE],
            [h EXCEPT !.env = [@ EXCEPT !["SHELL"] = Unset]],
            [h EXCEPT !.env = [@ EXCEPT !["SHELL"] = << >>]],
            [h EXCEPT !.executableErr = "executable"],
            [h EXCEPT !.executableErr = "evalSymlinks"],
            [h EXCEPT !.getwdErr = TRUE]} : h \in {BaseHost, InToolboxHost}}

\* Lines 60-64 of Execute: setUpGlobals fails, the error is printed and the
\* process exits with 1 before any subcommand runs.
SetUpFails ==
    /\ setUpGlobals(host) # Nil
    /\ \E sub \in {"create", "rm", "run", "enter", "reset"} :
          last' = [cmd |-> "setUpGlobals", sub |-> sub, err |-> setUpGlobals(host),
                   exit |-> 1]
    /\ UNCHANGED <<host, containers, images, created>>

InitStartup == Start(StartupHosts)

NextStartup ==
    \/ SetUpFails
    \/ Create(LayoutCreateInputs \cup ForwardCreateInputs)
    \/ Run
    \/ Enter
    \/ Reset
    \/ OtherCreates({Dev}, {ToolboxLabels})
    \/ OtherRemoves

SpecStartup == InitStartup /\ [][NextStartup]_vars

SetUpFailed == last.cmd = "setUpGlobals"

\* C19 as stated: setUpGlobals fails only when the cgroups probe (on the
\* host), the current user, the resolved executable path or the working
\* directory cannot be obtained.
C19_FailsOnlyWithoutFour ==
    SetUpFailed =>
        \/ ~IsInsideContainer(host) /\ host.cgroupsErr
        \/ host.currentUserErr
        \/ host.executableErr # "none"
        \/ host.getwdErr

\* C19: setUpGlobals fails only when the cgroups probe (on the host), the
\* current user, the resolved executable path or the working directory cannot
\* be obtained, or when SHELL is unset or empty in the environment; the
\* process then exits with 1 and the subcommand does not run.
C19_FailsOnlyWithoutFive ==
    SetUpFailed =>
        /\ \/ ~IsInsideContainer(host) /\ host.cgroupsErr
           \/ host.currentUserErr
           \/ host.env["SHELL"] \in {Unset, << >>}
           \/ host.executableErr # "none"
           \/ host.getwdErr
        /\ last.exit = 1

C19_Witness ==
    /\ SetUpFailed
    /\ host.env["SHELL"] = Unset
    /\ last.err = <<"failed to get the current user's default shell">>
    /\ ~host.cgroupsErr /\ ~host.currentUserErr
    /\ host.executableErr = "none" /\ ~host.getwdErr

====
